---- MODULE Spec2Model ----
(***************************************************************************)
(* Model of gotopy2/gotopy.py: the Runtime engine of a line-numbered       *)
(* GOTO/GOSUB interpreter.  A program maps line numbers to steps; a step   *)
(* is an arbitrary callable, so a step is modelled as a nondeterministic   *)
(* sequence of calls on the runtime handle (goto, gosub, return_, halt,    *)
(* run_file) and writes to the shared store.                               *)
(*                                                                         *)
(* engines is the host call stack of Runtime objects: engines[1] is the    *)
(* runtime made by run_program, engines[i+1] the sub_runtime made by a     *)
(* run_file call of a step of engines[i].  The last engine is the one      *)
(* executing.  Fields whose names start with h_ are history fields: they   *)
(* record what happened and are never read by the modelled code.           *)
(***************************************************************************)
EXTENDS Integers, Sequences, FiniteSets, TLC

VARIABLES engines, stores, fault

vars == <<engines, stores, fault>>

(* ---- bounds ---- *)
MaxOps == 2        \* calls one step makes on its handle or store
MaxStack == 2      \* depth of a call stack
\* largest loop bound K of the counting loop
MaxK == 8
MaxSubOps == 1     \* calls one step of a program run by run_file makes

(* ---- the programs and the values steps use ---- *)
ProgramKeys == {10, 20, 30}      \* program given to run_program
MainProgramKeys == {10, 20}      \* program whose steps call run_file
SubProgramKeys == {100}          \* mod.program loaded by run_file
Targets == ProgramKeys \cup SubProgramKeys   \* arguments of goto / gosub
Keys == {"msg"}                  \* keys steps write into a store
None == -1                       \* Python None (no line number is negative here)

NoOp == [op |-> "none", line |-> None]

(* ---- helpers of the Python runtime ---- *)
RECURSIVE sorted(_)
sorted(S) ==
    IF S = {} THEN <<>>
    ELSE LET m == CHOOSE x \in S : \A y \in S : x <= y
         IN <<m>> \o sorted(S \ {m})

\* list.index: position (0-based) of the first occurrence
index(seq, x) ==
    (CHOOSE i \in 1..Len(seq) : seq[i] = x /\ \A j \in 1..(i-1) : seq[j] # x) - 1

Front(seq) == SubSeq(seq, 1, Len(seq) - 1)

\* truth value of a dict: empty dicts are falsy
truthy(d) == d # {}

(* ---- Runtime ---- *)
Runtime(program, globals, parent) ==
    [ program    |-> program,
      lines      |-> sorted(program),
      line_idx   |-> 0,
      stack      |-> <<>>,
      globals    |-> globals,
      parent     |-> parent,
      _goto_line |-> None,
      _returning |-> FALSE,
      _halted    |-> FALSE,
      pc         |-> "ready",
      h_nops     |-> 0,
      h_last     |-> NoOp,
      h_jump     |-> None,
      h_halt     |-> FALSE,
      h_pre      |-> <<>>,
      h_sites    |-> <<>>,
      h_before   |-> <<>>,
      h_ret      |-> None,
      h_rethalt  |-> FALSE,
      returned   |-> None,
      h_arg      |-> None,
      h_given    |-> None,
      h_bound    |-> None,
      h_runs     |-> 0,
      h_sub      |-> "none",
      h_snap     |-> <<>>,
      h_plain    |-> TRUE,
      h_trace    |-> <<>> ]

\* __init__ line 35 with a truthiness test (globals_dict or {})
init_globals_or(globals_dict, heap) ==
    IF globals_dict # None /\ truthy(heap[globals_dict])
    THEN [id |-> globals_dict, heap |-> heap]
    ELSE [id |-> Len(heap) + 1, heap |-> Append(heap, {})]

\* __init__ line 35: the dict the runtime is bound to, the one given or a
\* new empty one; globals_dict is None or the id of a dict of heap
init_globals(globals_dict, heap) ==
    IF globals_dict # None
    THEN [id |-> globals_dict, heap |-> heap]
    ELSE [id |-> Len(heap) + 1, heap |-> Append(heap, {})]

\* run_program line 126: the value returned
run_program_result(rt) == rt.globals

\* Each method yields the runtime after the call and the error it raised.
Ok(rt) == [rt |-> rt, err |-> "none"]
Raise(rt, e) == [rt |-> rt, err |-> e]

\* goto keeping a jump target already set in the step
goto_first_wins(self, line) ==
    IF line \notin self.program
    THEN Raise(self, "ValueError")
    ELSE Ok(IF self._goto_line # None THEN self
            ELSE [self EXCEPT !._goto_line = line])

\* goto without the test of line 42
goto_unchecked(self, line) == Ok([self EXCEPT !._goto_line = line])

goto(self, line) ==
    IF line \notin self.program
    THEN Raise(self, "ValueError")
    ELSE Ok([self EXCEPT !._goto_line = line])

\* gosub saving the current line instead of the next one
gosub_saves_current(self, line) ==
    IF line \notin self.program
    THEN Raise(self, "ValueError")
    ELSE Ok([self EXCEPT !.stack = Append(@, self.lines[self.line_idx + 1]),
                         !._goto_line = line])

\* gosub pushing the return address before it validates the target
gosub_push_first(self, line) ==
    LET next_line == IF self.line_idx + 1 < Len(self.lines)
                     THEN self.lines[self.line_idx + 2]
                     ELSE None
        pushed == [self EXCEPT !.stack = Append(@, next_line)]
    IN IF line \notin self.program
       THEN Raise(pushed, "ValueError")
       ELSE Ok([pushed EXCEPT !._goto_line = line])

gosub(self, line) ==
    IF line \notin self.program
    THEN Raise(self, "ValueError")
    ELSE LET next_line == IF self.line_idx + 1 < Len(self.lines)
                          THEN self.lines[self.line_idx + 2]
                          ELSE None
         IN Ok([self EXCEPT !.stack = Append(@, next_line),
                            !._goto_line = line])

\* return_ taking the oldest return address instead of the newest
return_fifo(self) ==
    IF self.stack = <<>>
    THEN Raise(self, "RuntimeError")
    ELSE LET ret == self.stack[1]
             popped == [self EXCEPT !.stack = Tail(@)]
         IN Ok([(IF ret = None
                 THEN [popped EXCEPT !._halted = TRUE]
                 ELSE [popped EXCEPT !._goto_line = ret])
                EXCEPT !._returning = TRUE])

\* return_ setting the return flag before it tests the stack
return_flag_first(self) ==
    LET flagged == [self EXCEPT !._returning = TRUE]
    IN IF self.stack = <<>>
       THEN Raise(flagged, "RuntimeError")
       ELSE LET ret == self.stack[Len(self.stack)]
                popped == [flagged EXCEPT !.stack = Front(@)]
            IN Ok(IF ret = None
                  THEN [popped EXCEPT !._halted = TRUE]
                  ELSE [popped EXCEPT !._goto_line = ret])

\* return_ reading the top of the stack without removing it
return_peek(self) ==
    IF self.stack = <<>>
    THEN Raise(self, "RuntimeError")
    ELSE LET ret == self.stack[Len(self.stack)]
         IN Ok([(IF ret = None
                 THEN [self EXCEPT !._halted = TRUE]
                 ELSE [self EXCEPT !._goto_line = ret])
                EXCEPT !._returning = TRUE])

\* return_ that, popping the sentinel, requests neither a halt nor a jump
return_sentinel_silent(self) ==
    IF self.stack = <<>>
    THEN Raise(self, "RuntimeError")
    ELSE LET ret == self.stack[Len(self.stack)]
             popped == [self EXCEPT !.stack = Front(@)]
         IN Ok([(IF ret = None
                 THEN popped
                 ELSE [popped EXCEPT !._goto_line = ret])
                EXCEPT !._returning = TRUE])

return_(self) ==
    IF self.stack = <<>>
    THEN Raise(self, "RuntimeError")
    ELSE LET ret == self.stack[Len(self.stack)]
             popped == [self EXCEPT !.stack = Front(@)]
         IN Ok([(IF ret = None
                 THEN [popped EXCEPT !._halted = TRUE]
                 ELSE [popped EXCEPT !._goto_line = ret])
                EXCEPT !._returning = TRUE])

\* halt giving way to a jump already requested in the step
halt_unless_jump(self) ==
    IF self._goto_line # None THEN self ELSE [self EXCEPT !._halted = TRUE]

halt(self) == [self EXCEPT !._halted = TRUE]

\* run_file line 81: the dict the sub-runtime is bound to
\* (globals_dict or self.globals); arg is None or a store id
run_file_globals(self, arg, heap) ==
    IF arg # None /\ truthy(heap[arg]) THEN arg ELSE self.globals

\* run_file handing the caller's call stack to the sub-runtime
run_file_sub_shares_stack(self, program, arg, heap, self_id) ==
    [Runtime(program, run_file_globals(self, arg, heap), self_id)
        EXCEPT !.stack = self.stack]

\* run_file, lines 81-82: the sub-runtime as constructed
run_file_sub(self, program, arg, heap, self_id) ==
    Runtime(program, run_file_globals(self, arg, heap), self_id)

\* run_file letting the halt of the sub-runtime halt the caller
run_file_exit_halts(self, sub_runtime) ==
    [self EXCEPT !._halted = @ \/ sub_runtime._halted]

\* run_file, lines 82-83: the caller once sub_runtime.run() has returned;
\* nothing of the sub-runtime is read back
run_file_exit(self, sub_runtime) == self

\* run_file catching what sub_runtime.run() raises
run_file_raise_caught(self, err) == Ok(self)

\* run_file, line 82, and run, line 98: sub_runtime.run() raises err; no
\* handler stands in run_file or in run, so the caller's step and the
\* caller's run raise it in turn
run_file_raise(self, err) == Raise(self, err)

\* run, line 89
run_enter(self) == [self EXCEPT !.line_idx = 0, !.pc = "loop"]

\* run, lines 90-97: loop test and the resets before the step is called
\* run_fetch with the resets of lines 94-95 left out
run_fetch_keep(self) ==
    IF self.line_idx < Len(self.lines) /\ ~self._halted
    THEN [self EXCEPT !.pc = "stmt"]
    ELSE [self EXCEPT !.pc = "exit"]

run_fetch(self) ==
    IF self.line_idx < Len(self.lines) /\ ~self._halted
    THEN [self EXCEPT !._goto_line = None, !._returning = FALSE, !.pc = "stmt"]
    ELSE [self EXCEPT !.pc = "exit"]

\* run_resolve with the increment of line 115 forgotten
run_resolve_stay(self) ==
    IF self._halted THEN [self EXCEPT !.pc = "exit"]
    ELSE IF self._goto_line # None
    THEN [self EXCEPT !.line_idx = index(self.lines, self._goto_line), !.pc = "loop"]
    ELSE IF self._returning
    THEN [self EXCEPT !.pc = "exit"]
    ELSE IF self.line_idx + 1 < Len(self.lines)
    THEN [self EXCEPT !.pc = "loop"]
    ELSE [self EXCEPT !.pc = "exit"]

\* run_resolve with the pending jump ignored (always the next line)
run_resolve_nojump(self) ==
    IF self._halted THEN [self EXCEPT !.pc = "exit"]
    ELSE IF self.line_idx + 1 < Len(self.lines)
    THEN [self EXCEPT !.line_idx = @ + 1, !.pc = "loop"]
    ELSE [self EXCEPT !.pc = "exit"]

\* run_resolve ending the run on any return (return flag tested before the jump)
run_resolve_return_ends(self) ==
    IF self._halted THEN [self EXCEPT !.pc = "exit"]
    ELSE IF self._returning
    THEN [self EXCEPT !.pc = "exit"]
    ELSE IF self._goto_line # None
    THEN [self EXCEPT !.line_idx = index(self.lines, self._goto_line), !.pc = "loop"]
    ELSE IF self.line_idx + 1 < Len(self.lines)
    THEN [self EXCEPT !.line_idx = @ + 1, !.pc = "loop"]
    ELSE [self EXCEPT !.pc = "exit"]

\* run, lines 99-117: resolution after the step returned
\* run_resolve honouring a jump only when its target lies ahead
run_resolve_forward(self) ==
    IF self._halted THEN [self EXCEPT !.pc = "exit"]
    ELSE IF self._goto_line # None
            /\ index(self.lines, self._goto_line) > self.line_idx
    THEN [self EXCEPT !.line_idx = index(self.lines, self._goto_line), !.pc = "loop"]
    ELSE IF self.line_idx + 1 < Len(self.lines)
    THEN [self EXCEPT !.line_idx = @ + 1, !.pc = "loop"]
    ELSE [self EXCEPT !.pc = "exit"]

run_resolve(self) ==
    IF self._halted THEN [self EXCEPT !.pc = "exit"]
    ELSE IF self._goto_line # None
    THEN [self EXCEPT !.line_idx = index(self.lines, self._goto_line), !.pc = "loop"]
    ELSE IF self._returning
    THEN [self EXCEPT !.pc = "exit"]
    ELSE IF self.line_idx + 1 < Len(self.lines)
    THEN [self EXCEPT !.line_idx = @ + 1, !.pc = "loop"]
    ELSE [self EXCEPT !.pc = "exit"]

(* ---- state ---- *)
top == Len(engines)
cur == engines[top]
current_line(e) == e.lines[e.line_idx + 1]

\* the engine fields the code owns (history fields left out)
Signals(e) == <<e._goto_line, e._returning, e._halted, e.stack, e.line_idx>>

\* run_program (lines 124-125 before rt.run()): the runtime as constructed
Init ==
    /\ stores = << {} >>
    /\ engines = << Runtime(ProgramKeys, 1, 0) >>
    /\ fault = "none"

Running == fault = "none" /\ engines # <<>>
InStep ==
    /\ Running /\ cur.pc = "stmt"
    /\ cur.h_nops < (IF top = 1 THEN MaxOps ELSE MaxSubOps)

SetTop(e) == engines' = [engines EXCEPT ![top] = e]

\* a step has called a method of its handle: the method's effect on the
\* runtime, or the error it raises out of the step and out of every run
Call(op, res, hist) ==
    /\ SetTop(IF res.err = "none" THEN hist
              ELSE [res.rt EXCEPT !.h_nops = @ + 1, !.h_last.op = op])
    /\ fault' = res.err
    /\ UNCHANGED stores

NotPlain(e) == [e EXCEPT !.h_plain = FALSE, !.h_trace = <<>>]

\* rt.run() of run_program, line 89
Run ==
    /\ Running /\ cur.pc = "ready"
    /\ SetTop(run_enter(cur))
    /\ UNCHANGED <<stores, fault>>

\* run, lines 90-97: the loop test, then the step of the current line is called
LoopHead ==
    /\ Running /\ cur.pc = "loop"
    /\ LET e == run_fetch(cur)
       IN SetTop([e EXCEPT !.h_nops = 0, !.h_last = NoOp, !.h_jump = None,
                           !.h_pre = cur.stack, !.h_ret = None, !.h_sub = "none",
                           !.h_trace = IF e.pc = "stmt" /\ e.h_plain
                                       THEN Append(@, current_line(e)) ELSE @])
    /\ UNCHANGED <<stores, fault>>

Goto(line) ==
    /\ InStep
    /\ LET res == goto(NotPlain(cur), line)
       IN Call("goto", res,
               [res.rt EXCEPT !.h_nops = @ + 1,
                                   !.h_last = [op |-> "goto", line |-> line],
                                   !.h_jump = line])

Gosub(line) ==
    /\ InStep
    /\ Len(cur.stack) < MaxStack \/ line \notin cur.program
    /\ LET res == gosub(NotPlain(cur), line)
       IN Call("gosub", res,
               [res.rt EXCEPT !.h_nops = @ + 1,
                                   !.h_last = [op |-> "gosub", line |-> line],
                                   !.h_jump = line,
                                   !.h_sites = Append(@, cur.line_idx),
                                   !.h_before = Append(@, cur.stack)])

Return ==
    /\ InStep
    /\ LET res == return_(cur)
           ret == cur.stack[Len(cur.stack)]
       IN Call("return", res,
               [res.rt EXCEPT !.h_nops = @ + 1,
                                   !.h_last = [op |-> "return", line |-> None],
                                   !.h_jump = IF ret = None THEN @ ELSE ret,
                                   !.h_ret = cur.h_sites[Len(cur.h_sites)],
                                   !.h_rethalt = @ \/ ret = None,
                                   !.h_sites = Front(@),
                                   !.h_before = Front(@)])

Halt ==
    /\ InStep
    /\ SetTop([halt(NotPlain(cur)) EXCEPT !.h_nops = @ + 1,
                                          !.h_last = [op |-> "halt", line |-> None],
                                          !.h_halt = TRUE])
    /\ UNCHANGED <<stores, fault>>

\* a step writes a key into the store it was handed (g.update / g[k] = v)
Write(k) ==
    /\ InStep
    /\ stores' = [stores EXCEPT ![cur.globals] = @ \cup {k}]
    /\ SetTop([cur EXCEPT !.h_nops = @ + 1])
    /\ UNCHANGED fault

\* a step of the program given to run_program calls run_file: the sub-runtime
\* is constructed and its run entered.  arg is None, the caller's own dict,
\* or a dict the step has just made (heap is the store table with it).
RunFileCall(arg, heap) ==
    /\ InStep
    /\ top = 1
    /\ stores' = heap
    /\ LET sub == run_file_sub(cur, SubProgramKeys, arg, heap, top)
       IN engines' = Append([engines EXCEPT ![top].h_nops = @ + 1],
                            [run_enter(sub) EXCEPT !.h_arg = arg,
                                                   !.h_snap = Signals(cur)])
    /\ UNCHANGED fault

RunFile ==
    \/ \E arg \in {None, cur.globals} : RunFileCall(arg, stores)
    \/ \E fresh \in SUBSET Keys :
          RunFileCall(Len(stores) + 1, Append(stores, fresh))

\* sub_runtime.run() returns into run_file, which returns into the step; a
\* dict the step had made for the call is not followed any further
RunFileReturn ==
    /\ Running /\ top > 1 /\ cur.pc = "exit"
    /\ engines' = [Front(engines) EXCEPT
                      ![top - 1] = [run_file_exit(engines[top - 1], cur) EXCEPT
                                       !.h_sub = IF cur._halted THEN "halt" ELSE "end"]]
    /\ stores' = SubSeq(stores, 1, 1)
    /\ UNCHANGED fault

\* an error raised in the sub-runtime leaves sub_runtime.run() and reaches
\* the caller's step
Unwind ==
    /\ fault # "none" /\ top > 1
    /\ LET res == run_file_raise(engines[top - 1], fault)
       IN /\ engines' = [Front(engines) EXCEPT
                            ![top - 1] = [res.rt EXCEPT !.h_sub = "raise"]]
          /\ fault' = res.err
    /\ stores' = SubSeq(stores, 1, 1)

\* run, lines 98-117: the step returns and the run resolves the next line
StmtDone ==
    /\ Running /\ cur.pc = "stmt"
    /\ LET e == run_resolve(cur)
       IN SetTop(IF e.pc = "exit" THEN e
                 ELSE [e EXCEPT !.h_nops = 0, !.h_last = NoOp, !.h_jump = None,
                                !.h_pre = <<>>, !.h_ret = None, !.h_sub = "none"])
    /\ UNCHANGED <<stores, fault>>

\* one runtime: run_program on a program whose steps do not call run_file
Next ==
    \/ Run
    \/ LoopHead
    \/ \E line \in Targets : Goto(line)
    \/ \E line \in Targets : Gosub(line)
    \/ Return
    \/ Halt
    \/ \E k \in Keys : Write(k)
    \/ StmtDone

Spec == Init /\ [][Next]_vars

\* run_program on a program whose steps may call run_file
InitNested ==
    /\ stores = << {} >>
    /\ engines = << Runtime(MainProgramKeys, 1, 0) >>
    /\ fault = "none"

NextNested ==
    \/ Next
    \/ RunFile
    \/ RunFileReturn
    \/ Unwind

SpecNested == InitNested /\ [][NextNested]_vars

\* run_program called with no dict or with a dict of the caller (empty or not)
InitProgram ==
    \E globals_dict \in {None, 1} : \E given \in SUBSET Keys :
        LET heap == IF globals_dict = None THEN <<>> ELSE <<given>>
            g == init_globals(globals_dict, heap)
        IN /\ globals_dict = None => given = {}
           /\ stores = g.heap
           /\ engines = << [Runtime(MainProgramKeys, g.id, 0) EXCEPT
                               !.h_arg = globals_dict,
                               !.h_given = IF globals_dict = None THEN None
                                           ELSE Cardinality(given)] >>
           /\ fault = "none"

\* run_program line 126: rt.run() has returned and rt.globals is handed back
ReturnProgram ==
    /\ Running /\ top = 1 /\ cur.pc = "exit"
    /\ SetTop([cur EXCEPT !.pc = "returned", !.returned = run_program_result(cur)])
    /\ UNCHANGED <<stores, fault>>

NextProgram ==
    \/ Next
    \/ ReturnProgram

SpecProgram == InitProgram /\ [][NextProgram]_vars

\* the counting loop: line 10 increments n, line 20 jumps back to 10 while
\* n < K and halts otherwise; here the dict maps "n" to its value
LoopProgramKeys == {10, 20}

InitLoop ==
    \E K \in 1..MaxK :
        /\ stores = << [n |-> 0] >>
        /\ engines = << [Runtime(LoopProgramKeys, 1, 0) EXCEPT !.h_bound = K] >>
        /\ fault = "none"

\* step10: g["n"] = g["n"] + 1
Step10 ==
    /\ InStep /\ cur.h_nops = 0 /\ current_line(cur) = 10
    /\ stores[cur.globals].n <= MaxK
    /\ stores' = [stores EXCEPT ![cur.globals].n = @ + 1]
    /\ SetTop([cur EXCEPT !.h_nops = 1, !.h_runs = @ + 1])
    /\ UNCHANGED fault

\* step20: if g["n"] < K: r.goto(10) else: r.halt()
Step20 ==
    /\ InStep /\ cur.h_nops = 0 /\ current_line(cur) = 20
    /\ IF stores[cur.globals].n < cur.h_bound THEN Goto(10) ELSE Halt

\* the step of the current line has returned
LoopStmtDone == cur.h_nops = 1 /\ StmtDone

NextLoop ==
    \/ Run
    \/ LoopHead
    \/ Step10
    \/ Step20
    \/ LoopStmtDone

SpecLoop == InitLoop /\ [][NextLoop]_vars

\* run is sequential code: it keeps going until it returns
SpecLoopFair == SpecLoop /\ WF_vars(NextLoop)

(* ---- properties ---- *)
IsPrefix(s, t) == Len(s) <= Len(t) /\ s = SubSeq(t, 1, Len(s))

\* the run of e calls the step of a line and so becomes f
Executes(e, f) == e.pc = "loop" /\ f.pc = "stmt"

\* the line that follows the line at position site of e's line table,
\* None when that line is the last
Following(e, site) ==
    IF site + 1 < Len(e.lines) THEN e.lines[site + 2] ELSE None

\* C1 (as amended): a run whose steps have invoked none of goto, gosub, halt
\* and whose return-free steps raised nothing has executed a prefix of the
\* sorted line table in order, is still running only while lines remain, and
\* has executed exactly the whole table once it has terminated.
C1_Sequential ==
    \A i \in DOMAIN engines :
        LET e == engines[i]
        IN (e.h_plain /\ fault = "none") =>
              /\ IsPrefix(e.h_trace, e.lines)
              /\ e.pc = "loop" => /\ Len(e.h_trace) < Len(e.lines)
                                  /\ e.line_idx = Len(e.h_trace)
              /\ e.pc = "stmt" => e.line_idx + 1 = Len(e.h_trace)
              /\ e.pc = "exit" => e.h_trace = e.lines

\* C1 as stated: every run without goto, gosub, halt that has ended has
\* executed every line once in ascending order (a run ended by an error
\* included).
C1_Original ==
    \A i \in DOMAIN engines :
        LET e == engines[i]
        IN (e.h_plain /\ (e.pc = "exit" \/ fault # "none")) => e.h_trace = e.lines

C1_Witness ==
    /\ fault = "none"
    /\ engines[1].h_plain
    /\ engines[1].pc = "exit"
    /\ engines[1].h_trace = <<10, 20, 30>>

\* C2 (as amended): when the last control operation of a step is goto(L), L
\* a line of the program, and no halt was requested in the step, the run
\* moves to L and the next step it calls is the step of L (so no line
\* between the jump site and L runs before L).
C2_GotoNext ==
    [][\A i \in DOMAIN engines : i \in DOMAIN engines' =>
          LET e == engines[i]
              f == engines'[i]
          IN /\ (e.pc = "stmt" /\ f.pc # "stmt" /\ e.h_last.op = "goto"
                     /\ ~e._halted)
                  => (f.pc = "loop" /\ current_line(f) = e.h_last.line)
             /\ Executes(e, f) => f.line_idx = e.line_idx
             /\ (e.pc = "loop" /\ f # e /\ e.line_idx < Len(e.lines) /\ ~e._halted)
                  => Executes(e, f)]_vars

\* C2 as stated: the same with a halt requested earlier in the step allowed.
C2_Original ==
    [][\A i \in DOMAIN engines : i \in DOMAIN engines' =>
          LET e == engines[i]
              f == engines'[i]
          IN (e.pc = "stmt" /\ f.pc # "stmt" /\ fault' = "none"
                  /\ e.h_last.op = "goto")
               => (f.pc = "loop" /\ current_line(f) = e.h_last.line)]_vars

\* goto(30) was the last call of the step of line 10: line 20 is jumped over
C2_Witness ==
    /\ fault = "none"
    /\ engines[1].pc = "stmt"
    /\ current_line(engines[1]) = 10
    /\ engines[1].h_last = [op |-> "goto", line |-> 30]
    /\ ~engines[1]._halted

\* the step of e has returned and the run of e has resolved it into f
Resolved(e, f) == e.pc = "stmt" /\ f.pc # "stmt"

\* C3 (as amended): a return() matches the gosub of line C.  If C is the last
\* line the run ends with the returning step.  Otherwise, when that return()
\* is the last control operation of its step and no halt was requested in the
\* step, the next line the run executes is the line following C.
C3_ReturnResumes ==
    [][\A i \in DOMAIN engines : i \in DOMAIN engines' =>
          LET e == engines[i]
              f == engines'[i]
          IN /\ (Resolved(e, f) /\ e.h_ret # None) =>
                   IF Following(e, e.h_ret) = None
                   THEN f.pc = "exit"
                   ELSE (e.h_last.op = "return" /\ ~e._halted) =>
                           /\ f.pc = "loop"
                           /\ current_line(f) = Following(e, e.h_ret)
             /\ Executes(e, f) => f.line_idx = e.line_idx]_vars

\* C3 as stated: whatever else the returning step invokes.
C3_Original ==
    [][\A i \in DOMAIN engines : i \in DOMAIN engines' =>
          LET e == engines[i]
              f == engines'[i]
          IN (Resolved(e, f) /\ e.h_ret # None) =>
                IF Following(e, e.h_ret) = None
                THEN f.pc = "exit"
                ELSE /\ f.pc = "loop"
                     /\ current_line(f) = Following(e, e.h_ret)]_vars

\* the step of line 30 returns from the gosub made at line 10
C3_Witness ==
    /\ fault = "none"
    /\ engines[1].pc = "stmt"
    /\ current_line(engines[1]) = 30
    /\ engines[1].h_last.op = "return"
    /\ engines[1].h_ret = 0
    /\ engines[1]._goto_line = 20
    /\ ~engines[1]._halted

\* the call stack holds, oldest first, the return addresses of the gosubs
\* not yet returned from
StackMatches(e) ==
    /\ Len(e.stack) = Len(e.h_sites)
    /\ \A k \in 1..Len(e.stack) : e.stack[k] = Following(e, e.h_sites[k])

\* C4 (as amended): every return() pops the return address pushed by the most
\* recent gosub not yet returned from and requests the jump to it (or the
\* halt, for the sentinel); from inside a nested gosub, when that return() is
\* the last control operation of its step and no halt was requested in the
\* step, the next line executed is the one following that gosub.
C4_Lifo ==
    /\ [](\A i \in DOMAIN engines : StackMatches(engines[i]))
    /\ [][(Return /\ fault' = "none") =>
             LET e == cur
                 f == engines'[top]
                 ret == Following(e, e.h_sites[Len(e.h_sites)])
             IN /\ f.stack = Front(e.stack)
                /\ f.h_ret = e.h_sites[Len(e.h_sites)]
                /\ IF ret = None THEN f._halted ELSE f._goto_line = ret]_vars
    /\ [][\A i \in DOMAIN engines : i \in DOMAIN engines' =>
             LET e == engines[i]
                 f == engines'[i]
             IN (Resolved(e, f) /\ e.h_ret # None /\ Len(e.h_pre) >= 2
                    /\ Following(e, e.h_ret) # None
                    /\ e.h_last.op = "return" /\ ~e._halted)
                  => (f.pc = "loop" /\ current_line(f) = Following(e, e.h_ret))]_vars

\* C4 as stated: the first return() of two nested gosubs resumes after the
\* inner gosub, whatever else the returning step invokes.
C4_Original ==
    [][\A i \in DOMAIN engines : i \in DOMAIN engines' =>
          LET e == engines[i]
              f == engines'[i]
          IN (Resolved(e, f) /\ e.h_ret # None /\ Len(e.h_pre) >= 2
                 /\ Following(e, e.h_ret) # None)
               => (f.pc = "loop" /\ current_line(f) = Following(e, e.h_ret))]_vars

\* gosub at line 10, then gosub at line 20, then the first return()
C4_Witness ==
    /\ fault = "none"
    /\ engines[1].pc = "stmt"
    /\ engines[1].h_pre = <<20, 30>>
    /\ engines[1].h_last.op = "return"
    /\ engines[1].h_ret = 1
    /\ engines[1].stack = <<20>>
    /\ engines[1]._goto_line = 30

\* C5: once a step has called halt(), the run executes no other line: it
\* ends when that step returns, whatever jump the step requested before or
\* after the halt().
C5_HaltStops ==
    [][\A i \in DOMAIN engines : i \in DOMAIN engines' =>
          LET e == engines[i]
              f == engines'[i]
          IN e.h_halt => /\ ~Executes(e, f)
                         /\ Resolved(e, f) => f.pc = "exit"
                         /\ e.pc = "exit" => f.pc = "exit"]_vars

\* the run has ended at line 10 though goto(30) was called after halt()
C5_Witness ==
    /\ engines[1].pc = "exit"
    /\ engines[1].h_halt
    /\ engines[1].line_idx = 0
    /\ engines[1].h_last = [op |-> "goto", line |-> 30]
    /\ engines[1]._goto_line = 30

\* C6: return() on an empty call stack raises RuntimeError ("RETURN without
\* GOSUB") and changes neither the runtime's fields nor any store.
C6_ReturnEmpty ==
    [][(Return /\ cur.stack = <<>>) =>
          /\ fault' = "RuntimeError"
          /\ Len(engines') = Len(engines)
          /\ Signals(engines'[top]) = Signals(cur)
          /\ \A i \in 1..(top - 1) : engines'[i] = engines[i]
          /\ stores' = stores]_vars

\* return() failed in a step that had already requested a jump
C6_Witness ==
    /\ fault = "RuntimeError"
    /\ cur.h_last.op = "return"
    /\ cur.stack = <<>>
    /\ cur._goto_line # None
    /\ ~cur._returning

\* C7: goto(L) or gosub(L) with L not a line of the program raises ValueError
\* ("No such line") and changes nothing: no return address is pushed and the
\* pending jump target keeps its value.
C7_UnknownLine ==
    [][\A line \in Targets :
          ((Goto(line) \/ Gosub(line)) /\ line \notin cur.program) =>
              /\ fault' = "ValueError"
              /\ Len(engines') = Len(engines)
              /\ Signals(engines'[top]) = Signals(cur)
              /\ stores' = stores]_vars

\* gosub to an unknown line failed after a gosub of the same step succeeded
C7_Witness ==
    /\ fault = "ValueError"
    /\ cur.h_last.op = "gosub"
    /\ Len(cur.stack) = Len(cur.h_pre) + 1
    /\ cur._goto_line # None

\* the dict C8 says a nested run writes to
C8_Target(caller, sub) ==
    IF sub.h_arg = None \/ sub.h_arg = caller.globals
    THEN caller.globals
    ELSE sub.h_arg

\* C8: a run_file without override, or with the caller's own dict, runs on
\* the caller's dict; a run_file with any other dict, empty or not, runs on
\* that dict, and its steps leave the caller's dict unchanged.
C8_Override ==
    /\ [](top > 1 => cur.globals = C8_Target(engines[top - 1], cur))
    /\ [][(top > 1 /\ Len(engines') = top) =>
             \A d \in DOMAIN stores :
                 d # C8_Target(engines[top - 1], cur) => stores'[d] = stores[d]]_vars

\* C9: while a nested run goes on and when it completes, the caller's pending
\* jump target, return flag, halt flag, call stack and instruction pointer are
\* what they were when its step called run_file, and the caller is still in
\* that step.
C9_NestedLocal ==
    [][(top > 1 /\ Len(engines') >= top - 1) =>
          /\ Signals(engines'[top - 1]) = cur.h_snap
          /\ engines'[top - 1].pc = "stmt"
          /\ engines'[top - 1].program = engines[top - 1].program]_vars

\* a nested run ended by halt has returned into a step that had called gosub
C9_Witness ==
    /\ fault = "none"
    /\ top = 1
    /\ cur.pc = "stmt"
    /\ cur.h_sub = "halt"
    /\ ~cur._halted
    /\ cur.stack # <<>>
    /\ cur._goto_line # None

\* the runtime as it would be had the step invoked its last operation alone
Alone(e) ==
    LET base == [e EXCEPT !.stack = e.h_pre, !._goto_line = None,
                          !._returning = FALSE, !._halted = FALSE]
    IN CASE e.h_last.op = "goto"   -> goto(base, e.h_last.line).rt
         [] e.h_last.op = "gosub"  -> gosub(base, e.h_last.line).rt
         [] e.h_last.op = "return" -> return_(base).rt
         [] e.h_last.op = "halt"   -> halt(base)
         [] OTHER                  -> base

\* C10 (as amended): after the control operations of a step, the pending jump
\* target is the one set by the last operation that sets one (goto, gosub, or
\* a return() to a saved line); a halt() of the step stays in force whatever
\* follows it, and the call stack keeps every push and pop of the step.
C10_LastJumpWins ==
    \A i \in DOMAIN engines :
        LET e == engines[i]
        IN (e.pc = "stmt" /\ fault = "none") =>
              /\ e._goto_line = e.h_jump
              /\ e.h_halt => e._halted
              /\ StackMatches(e)

\* C10 as stated: the runtime after the step is as if the last operation had
\* been invoked alone.
C10_Original ==
    \A i \in DOMAIN engines :
        LET e == engines[i]
        IN (e.pc = "stmt" /\ fault = "none" /\ e.h_last.op # "none") =>
              Signals(e) = Signals(Alone(e))

\* goto(30) after gosub(20) in the step of line 10
C10_Witness ==
    /\ fault = "none"
    /\ cur.pc = "stmt"
    /\ cur.h_nops = 2
    /\ cur.h_last = [op |-> "goto", line |-> 30]
    /\ cur.stack = <<20>>
    /\ cur.h_pre = <<>>
    /\ cur._goto_line = 30

\* the ways C11 lets a run end after the step of e: halt() was called, a
\* return() popped the terminate-on-return sentinel, or the line is the last
\* one and no jump was requested
EndsRun(e) ==
    \/ e.h_halt
    \/ e.h_rethalt
    \/ (e.line_idx + 1 = Len(e.lines) /\ e.h_jump = None)

\* C11: when a step has returned, the run ends exactly if the step called
\* halt(), or a return() of the step had no caller to return to, or the line
\* was the last one with no jump requested; otherwise the run goes on and
\* executes another line.  The loop test itself never ends a run.
C11_Termination ==
    [][\A i \in DOMAIN engines : i \in DOMAIN engines' =>
          LET e == engines[i]
              f == engines'[i]
          IN /\ Resolved(e, f) => /\ f.pc \in {"exit", "loop"}
                                  /\ f.pc = "exit" <=> EndsRun(e)
             /\ (e.pc = "loop" /\ f # e) => Executes(e, f)
             /\ e.pc = "exit" => f.pc = "exit"]_vars

\* the run has ended before its last line without halt(): a return() had no
\* caller to return to
C11_Witness ==
    /\ fault = "none"
    /\ engines[1].pc = "exit"
    /\ ~engines[1].h_halt
    /\ engines[1].h_rethalt
    /\ engines[1].line_idx = 0

\* C12: run_program runs the program to its end and returns the store of the
\* run.  Given a dict, even an empty one, the run is bound to that very dict
\* (so every write of a step lands in it) and returns it; given none, the run
\* starts on a new empty dict and returns that one.
C12_RunProgram ==
    LET e == engines[1]
    IN /\ e.h_arg # None => e.globals = e.h_arg
       /\ e.h_arg = None => /\ e.globals \in DOMAIN stores
                            /\ e.pc = "ready" => stores[e.globals] = {}
       /\ e.pc = "returned" => e.returned = e.globals
       /\ e.pc # "returned" => e.returned = None

\* run_program was given an empty dict, a step wrote "msg" into it, and the
\* same dict was returned
C12_Witness ==
    /\ fault = "none"
    /\ engines[1].pc = "returned"
    /\ engines[1].h_arg = 1
    /\ engines[1].h_given = 0
    /\ engines[1].returned = 1
    /\ stores = << {"msg"} >>

\* C13: in no state of a run is the return flag set while the halt flag is
\* clear and no jump is pending, whatever else the step invoked; so the test
\* of line 104 is never reached with a true condition.
C13_DeadBranch ==
    \A i \in DOMAIN engines :
        LET e == engines[i]
        IN e._returning => e._halted \/ e._goto_line # None

\* a return() has succeeded in the step being executed and left a jump pending
C13_Witness ==
    /\ fault = "none"
    /\ engines[1].pc = "stmt"
    /\ engines[1]._returning
    /\ ~engines[1]._halted
    /\ engines[1]._goto_line # None
    /\ engines[1].h_last.op = "return"

\* C14: when a step is called the pending jump and the return flag are clear,
\* so a step that requests nothing is resolved by the plain advance (or ends
\* the run on the last line) whatever earlier steps requested; and the halt
\* flag, once set, stays set.
C14_Resets ==
    [][\A i \in DOMAIN engines : i \in DOMAIN engines' =>
          LET e == engines[i]
              f == engines'[i]
          IN /\ Executes(e, f) => f._goto_line = None /\ ~f._returning
             /\ (Resolved(e, f) /\ e.h_nops = 0) =>
                    IF e.line_idx + 1 < Len(e.lines)
                    THEN f.pc = "loop" /\ f.line_idx = e.line_idx + 1
                    ELSE f.pc = "exit"
             /\ e._halted => f._halted]_vars

\* a step has just been called, with its flags clear, after an earlier step's
\* gosub jumped back to the first line
C14_Witness ==
    /\ fault = "none"
    /\ engines[1].pc = "stmt"
    /\ engines[1].h_nops = 0
    /\ engines[1].line_idx = 0
    /\ engines[1].stack # <<>>
    /\ engines[1]._goto_line = None
    /\ ~engines[1]._returning

LoopInv ==
    LET e == engines[1]
        n == stores[1].n
    IN /\ fault = "none"
       /\ e.h_runs <= e.h_bound
       /\ n = e.h_runs
       /\ (e.pc = "stmt" /\ e.h_nops = 0 /\ current_line(e) = 20) => n >= 1
       /\ e.pc = "exit" => e._halted /\ e.h_runs = e.h_bound /\ n = e.h_bound

LoopDone == engines[1].pc = "exit" /\ stores[1].n = engines[1].h_bound

\* C15: the loop {10: n = n + 1, 20: if n < K goto 10 else halt} started with
\* n = 0 never runs line 10 more than K times, ends only by the halt of line
\* 20 with line 10 run exactly K times and n = K, and does end.
C15_Loop == []LoopInv /\ <>LoopDone

\* the loop of the test (K = 3) has halted after three runs of line 10
C15_Witness ==
    /\ engines[1].h_bound = 3
    /\ engines[1].pc = "exit"
    /\ engines[1]._halted
    /\ engines[1].h_runs = 3
    /\ stores[1].n = 3

\* C16: run_file starts the sub-runtime with an empty call stack at the first
\* line of its own program; while a sub-runtime exists the caller's call
\* stack does not change; and a return() in the sub-runtime that no gosub of
\* the sub-runtime precedes raises RuntimeError, whatever the caller's stack.
C16_OwnStack ==
    [][/\ Len(engines') > Len(engines) =>
            LET sub == engines'[Len(engines')]
            IN /\ sub.stack = <<>>
               /\ sub.line_idx = 0
               /\ sub.pc = "loop"
               /\ sub.lines = sorted(SubProgramKeys)
       /\ (Len(engines) > 1 \/ Len(engines') > 1) =>
            engines'[1].stack = engines[1].stack
       /\ (Return /\ Len(engines) > 1 /\ cur.h_sites = <<>>) =>
            fault' = "RuntimeError"]_vars

\* a return() of the loaded program has raised while the caller's call stack
\* holds a return address
C16_Witness ==
    /\ fault = "RuntimeError"
    /\ Len(engines) = 2
    /\ engines[1].stack # <<>>
    /\ engines[2].stack = <<>>
    /\ engines[2].h_last.op = "return"

\* C17: once an error is raised nothing clears it: no runtime executes or
\* resolves anything further, the runtimes are only left one after the other
\* from the innermost outwards, and the error is still there when the
\* caller's run has been left.
C17_Surfaces ==
    [][fault # "none" =>
          /\ fault' = fault
          /\ Len(engines') <= Len(engines)
          /\ \A i \in DOMAIN engines' :
                [engines'[i] EXCEPT !.h_sub = engines[i].h_sub] = engines[i]]_vars

\* the error of a nested run has reached the caller, whose step it left
\* unresolved
C17_Witness ==
    /\ fault # "none"
    /\ Len(engines) = 1
    /\ engines[1].h_sub = "raise"
    /\ engines[1].pc = "stmt"

C19_WellFormed ==
    fault = "none" =>
        \A i \in DOMAIN engines :
            LET e == engines[i]
            IN /\ e.pc \in {"loop", "stmt"} =>
                     (e.line_idx >= 0 /\ e.line_idx < Len(e.lines))
               /\ \A k \in DOMAIN e.stack :
                     e.stack[k] = None \/ e.stack[k] \in e.program
               /\ e._goto_line # None =>
                     /\ e._goto_line \in e.program
                     /\ \E k \in DOMAIN e.lines : e.lines[k] = e._goto_line

\* the sentinel and a line are on the stack and a jump is pending
C19_Witness ==
    /\ fault = "none"
    /\ engines[1].pc = "stmt"
    /\ engines[1].stack = << None, 20 >>
    /\ engines[1]._goto_line = 10

====
